---- MODULE Spec2Model ----
(***************************************************************************)
(* Notification bridge of the wallet UI pages: a page registers a listener *)
(* adapter with the engine under its page ID, a goroutine (the consumer    *)
(* loop) selects on the adapter's channel and on the page context, and     *)
(* OnNavigatedFrom cancels the page context.                               *)
(*                                                                         *)
(* Spec         the pages that register a listener: AccountMixerPage,      *)
(*              ProposalsPage, OrderHistoryPage.                           *)
(* SpecTxPage   TransactionsPage, which reads the shared Receiver channel. *)
(* SpecTxBlock  TxAndBlockNotificationListener, the tx/block adapter.      *)
(* SpecMaster   SingleWalletMasterPage and its MainPageID listeners.        *)
(***************************************************************************)
EXTENDS Integers, Sequences, FiniteSets, TLC

\* ---------------------------------------------------------------- bounds
MaxAttach == 2          \* OnNavigatedTo calls (page contexts, listeners) per run
MaxEvents == 2          \* engine callbacks per run
NumEngineThreads == 2   \* engine worker threads that invoke callbacks
ListenerChanCap == 1    \* capacity of MixerChan / ProposalNotifChan / OrderNotifChan
ReceiverChanCap == 1    \* capacity of Receiver.NotificationsUpdate
NumTxBlockThreads == 1  \* engine threads that call the tx/block adapter
MaxMasterNav == 2       \* OnNavigatedTo calls of the master page per run
MaxFetches == 4         \* fetchOrders calls of the order history page per run

\* ------------------------------------------------------------- constants
AccountMixerPageID == "AccountMixer"
ProposalsPageID == "Proposals"
OrderHistoryPageID == "OrderHistory"

PageIDs == {AccountMixerPageID, ProposalsPageID, OrderHistoryPageID}

NoListener == 0         \* a nil *XxxNotificationListener
NoCtx == 0              \* a nil context / nil CancelFunc
NoEvent == 0            \* the zero notification value

CtxIds == 1..MaxAttach
ListenerIds == 1..MaxAttach
EventIds == 1..MaxEvents
EngThreads == 1..NumEngineThreads
TbThreads == 1..NumTxBlockThreads

\* The statuses an engine reports in each domain; the first of each pair is
\* the one whose handler sets the page's completion flag.
MixerStatuses == {"MixerEnded", "MixerStarted"}
ProposalStatuses == {"Synced", "NewProposal"}
OrderStatuses == {"OrderStatusSynced", "OrderStatusOther"}

AllStatuses == MixerStatuses \cup ProposalStatuses \cup OrderStatuses

StatusesOf(p) ==
    IF p = AccountMixerPageID THEN MixerStatuses
    ELSE IF p = ProposalsPageID THEN ProposalStatuses
    ELSE OrderStatuses

VARIABLES
    page,        \* which page this run is about (its page ID)
    pgCtx,       \* pg.ctx / pg.ctxCancel: the current page context, NoCtx if nil
    cancelled,   \* the contexts whose CancelFunc has been called
    pgListener,  \* pg.XxxNotificationListener: the embedded adapter pointer
    nListeners,  \* adapters created so far by NewXxxNotificationListener()
    chans,       \* listener id -> its channel [buf, closed]
    registered,  \* engine registry: the listeners held under the page's ID
    loops,       \* listener id -> the goroutine started when it was registered
    eng,         \* engine thread -> the callback it is inside, if any
    evStatus,    \* event id -> status, for the events produced so far
    enqueued,    \* event ids in the order their channel send completed
    handled,     \* event ids in the order the handler finished with them
    completed,   \* pg.mixerCompleted / pg.syncCompleted
    visible,     \* the latest lifecycle call was OnNavigatedTo
    nDetach,     \* OnNavigatedFrom calls made while the page was attached
    midFlight,   \* events whose handler was running when OnNavigatedFrom came
    dupAdd,      \* AddListener was called while the name was registered
    addErrLog,   \* the adapters whose AddListener error was logged
    fault        \* the run-time panic that ended the program, "none" if none

regVars == <<page, pgCtx, cancelled, pgListener, nListeners, chans, registered, loops, eng,
          evStatus, enqueued, handled, completed, visible, nDetach, midFlight,
          dupAdd, addErrLog, fault>>

\* TransactionsPage
VARIABLES
    txCtx,        \* pg.ctx / pg.ctxCancel of the TransactionsPage
    txCancelled,  \* its contexts that have been cancelled
    txLoops,      \* n -> the goroutine started by the n-th OnResume
    rcv,          \* pg.Receiver.NotificationsUpdate
    txSender,     \* the notification the wallet backend is sending, if any
    txEvents,     \* event id -> [type, walletID] of the notifications produced
    txHandled,    \* [ev, by]: notifications in the order goroutines handled them
    txSelected,   \* pg.wallets[pg.walletDropDown.SelectedIndex()].ID
    transactions  \* pg.transactions: how many txs the last load saw

txVars == <<txCtx, txCancelled, txLoops, rcv, txSender, txEvents, txHandled,
            txSelected, transactions>>

\* TxAndBlockNotificationListener
VARIABLES
    tbChan,       \* txAndBlk.TxAndBlockNotifChan
    tbEng,        \* engine thread -> the TxNotification it is sending, if any
    tbEvents,     \* event id -> the callback made: [type, walletID, height, hash, ok, after]
    tbReturned,   \* the callbacks that have returned to the engine
    tbLogged,     \* the callbacks that logged an unmarshalling error
    tbHandled     \* event ids in the order the consumer dispatched them

tbVars == <<tbChan, tbEng, tbEvents, tbReturned, tbLogged, tbHandled>>

\* SingleWalletMasterPage
VARIABLES
    selectedWallet,  \* swmp.selectedWallet
    mReg,            \* engine registries: is MainPageID present, per domain
    mGovAllowed,     \* swmp.isGovernanceAPIAllowed()
    mDisplayed,      \* the master page's last lifecycle call was OnNavigatedTo
    mChild,          \* the current sub-page has been navigated to
    mNav,            \* OnNavigatedTo calls so far
    mAddCalls,       \* the Add calls of the last listenForNotifications: [dom, ok]
    mAbsentRemoved,  \* Remove calls so far that found no MainPageID entry
    mBackedUp,       \* wallet -> IsWalletBackedUp()
    mBackupLater,    \* wallet -> SeedBackupNotificationConfigKey
    mPrompt,         \* the backup modal is on screen
    mPolSyncing,     \* Politeia.IsSyncing()
    mTabs,           \* the items of swmp.PageNavigationTab
    mPrevWallet,     \* the wallet selected before the last wallet switch, 0 if none
    mLaterClicked,   \* wallet -> "Backup later" has been chosen for it
    mSubPage         \* the ID of swmp.CurrentPage(), "none" when there is none

mVars == <<selectedWallet, mReg, mGovAllowed, mDisplayed, mChild, mNav, mAddCalls,
           mAbsentRemoved, mBackedUp, mBackupLater, mPrompt, mPolSyncing, mTabs,
           mPrevWallet, mLaterClicked, mSubPage>>

\* The master page's engine callbacks and the goroutines they start
VARIABLES
    nCalls,    \* engine callbacks made so far
    nLast,     \* the last callback: what it was called with and what it did
    nGo,       \* n -> the n-th ListenNewTxForSubPage goroutine
    nUpdates,  \* the sub-page update functions called, in order
    nFault     \* the panic that ended the program, "none" if none

nVars == <<nCalls, nLast, nGo, nUpdates, nFault>>

\* The order history page's list of orders and the fetchOrders calls in flight
VARIABLES
    oAttached,     \* OnNavigatedTo has run
    oItems,        \* len(pg.orderItems)
    oLoading,      \* pg.loading
    oInitialDone,  \* pg.initialLoadingDone
    oLoadedAll,    \* pg.loadedAll
    oThreads,      \* thread -> its position in fetchOrders: [pc, loadMore, offset, res]
    oFetches,      \* fetchOrders calls made so far
    oShort,        \* a fetch returned fewer than the limit and no fresh fetch ran since
    oIssue         \* what the last load-more issued from scrolling saw

oVars == <<oAttached, oItems, oLoading, oInitialDone, oLoadedAll, oThreads, oFetches,
           oShort, oIssue>>

vars == <<regVars, txVars, tbVars, mVars, nVars, oVars>>

\* What the actions of each specification leave alone.
NotRegVars == <<txVars, tbVars, mVars, nVars, oVars>>
NotTxVars == <<regVars, tbVars, mVars, nVars, oVars>>
NotTbVars == <<regVars, txVars, mVars, nVars, oVars>>
NotMVars == <<regVars, txVars, tbVars, nVars, oVars>>
NotMNVars == <<regVars, txVars, tbVars, oVars>>
NotOVars == <<regVars, txVars, tbVars, mVars, nVars>>

\* ------------------------------------------------------------ Go channels
NewChan == [buf |-> <<>>, closed |-> FALSE]

\* ch <- v can proceed: there is room, or the channel is closed (it panics).
CanSend(ch, cap) == ch.closed \/ Len(ch.buf) < cap

\* <-ch can proceed: a value is buffered, or the channel is closed (zero value).
CanRecv(ch) == ch.buf # <<>> \/ ch.closed

\* Mutant: the new notification goes in front of the waiting ones.
UpdateNotificationInFront(ch, signal) == [ch EXCEPT !.buf = <<signal>> \o @]

\* UpdateNotification: txAndBlk.TxAndBlockNotifChan <- signal
UpdateNotification(ch, signal) == [ch EXCEPT !.buf = Append(@, signal)]

\* The value a receive yields and the channel it leaves.
RecvValue(ch) == IF ch.buf # <<>> THEN Head(ch.buf) ELSE NoEvent
RecvRest(ch) == IF ch.buf # <<>> THEN [ch EXCEPT !.buf = Tail(@)] ELSE ch

\* ------------------------------------------------------------- the engine
\* AddListener(name, adapter): an error when the name is already present,
\* or when the engine rejects the registration for a reason of its own.
AddListenerResults(reg) == IF reg # {} THEN {FALSE} ELSE {TRUE, FALSE}
AddListener(reg, l, ok) == IF ok THEN reg \cup {l} ELSE reg

\* RemoveListener(name): deletes the entry; a no-op when absent.
RemoveListener(reg) == {}

\* The engine runs callbacks with its registry read-locked; RemoveListener
\* takes the write lock, so it waits for the callbacks in flight.
Idle == [l |-> NoListener, ev |-> NoEvent]
CallbacksInFlight == {t \in EngThreads : eng[t] # Idle}

\* ---------------------------------------------------------- consumer loop
NoLoop == [pc |-> "none", ch |-> NoListener, ctx |-> NoCtx, cur |-> NoEvent, det |-> FALSE]
LiveLoops == {l \in ListenerIds : loops[l].pc \notin {"none", "done"}}

NoFault == fault = "none"

TypeOK ==
    /\ page \in PageIDs
    /\ pgCtx \in CtxIds \cup {NoCtx}
    /\ cancelled \subseteq CtxIds
    /\ pgListener \in ListenerIds \cup {NoListener}
    /\ registered \subseteq ListenerIds
    /\ \A l \in ListenerIds :
         /\ loops[l].pc \in {"none", "top", "select", "handle", "remove", "close", "clear", "done"}
         /\ chans[l].closed \in BOOLEAN
    /\ Len(evStatus) <= MaxEvents
    /\ fault \in {"none", "sendOnClosed", "doubleClose", "nilDeref"}

RegInit ==
    /\ page \in PageIDs
    /\ pgCtx = NoCtx
    /\ cancelled = {}
    /\ pgListener = NoListener
    /\ nListeners = 0
    /\ chans = [l \in ListenerIds |-> NewChan]
    /\ registered = {}
    /\ loops = [l \in ListenerIds |-> NoLoop]
    /\ eng = [t \in EngThreads |-> Idle]
    /\ evStatus = <<>>
    /\ enqueued = <<>>
    /\ handled = <<>>
    /\ completed = FALSE
    /\ visible = FALSE
    /\ nDetach = 0
    /\ midFlight = {}
    /\ dupAdd = FALSE
    /\ addErrLog = {}
    /\ fault = "none"

TxWalletIDs == {1, 2}
TxTypes == {"NewTransaction", "Other"}
TbWalletIDs == {1}
TbHeights == {100}
TbHashes == {"abc"}

NoTxLoop == [pc |-> "none", ctx |-> NoCtx, cur |-> NoEvent]

TxInit ==
    /\ txCtx = NoCtx
    /\ txCancelled = {}
    /\ txLoops = [n \in CtxIds |-> NoTxLoop]
    /\ rcv = NewChan
    /\ txSender = NoEvent
    /\ txEvents = <<>>
    /\ txHandled = <<>>
    /\ txSelected \in TxWalletIDs
    /\ transactions = 0

TxIdle ==
    /\ txCtx = NoCtx
    /\ txCancelled = {}
    /\ txLoops = [n \in CtxIds |-> NoTxLoop]
    /\ rcv = NewChan
    /\ txSender = NoEvent
    /\ txEvents = <<>>
    /\ txHandled = <<>>
    /\ txSelected = 1
    /\ transactions = 0

\* Mutant: the channel holds one notification more.
TxAndBlockNotifChanCapOneMore == 4 + 1

\* NewTxAndBlockNotificationListener: make(chan TxNotification, 4)
TxAndBlockNotifChanCap == 4

\* One callback more than the channel holds, so that an enqueue has to wait.
MaxTbEvents == TxAndBlockNotifChanCap + 1

TbInit ==
    /\ tbChan = NewChan
    /\ tbEng = [t \in TbThreads |-> NoEvent]
    /\ tbEvents = <<>>
    /\ tbReturned = {}
    /\ tbLogged = {}
    /\ tbHandled = <<>>

\* SingleWalletMasterPage
MainPageID == "Main"

\* The wallets of the dropdown: 1 DCR, 2 DCR watching-only, 3 not DCR,
\* 4 not DCR watching-only.
MasterWallets == {1, 2, 3, 4}
IsDCRWallet(w) == w \in {1, 2}
IsWatchingOnlyWallet(w) == w \in {2, 4}

\* Go slices: a heap of backing arrays and slice headers [arr, off, len, cap].
\* The elements a slice shows.
SliceElems(h, sl) == [i \in 1..sl.len |-> h[sl.arr][sl.off + i]]

\* A slice literal: a fresh array exactly as long as the literal.
SliceLit(h, xs) ==
    [heap |-> Append(h, xs),
     slice |-> [arr |-> Len(h) + 1, off |-> 0, len |-> Len(xs), cap |-> Len(xs)]]

\* sl[lo:] and sl[:hi] share the backing array.
SliceFrom(sl, lo) == [arr |-> sl.arr, off |-> sl.off + lo, len |-> sl.len - lo, cap |-> sl.cap - lo]
SliceTo(sl, hi) == [sl EXCEPT !.len = hi]

\* The capacity append grows to (small slices double).
GrowCap(cap, need) == IF need > 2 * cap THEN need ELSE 2 * cap

\* append(sl, xs...): in place when the capacity suffices, else into a
\* fresh array; xs has been read before anything is written.
GoAppend(h, sl, xs) ==
    IF sl.len + Len(xs) <= sl.cap
    THEN [heap |-> [h EXCEPT ![sl.arr] =
                      [j \in 1..Len(@) |->
                         IF j > sl.off + sl.len /\ j <= sl.off + sl.len + Len(xs)
                         THEN xs[j - sl.off - sl.len] ELSE @[j]]],
          slice |-> [sl EXCEPT !.len = @ + Len(xs)]]
    ELSE LET n == sl.len + Len(xs)
             c == GrowCap(sl.cap, n)
         IN  [heap |-> Append(h, [j \in 1..c |->
                                    IF j <= sl.len THEN h[sl.arr][sl.off + j]
                                    ELSE IF j <= n THEN xs[j - sl.len] ELSE ""]),
              slice |-> [arr |-> Len(h) + 1, off |-> 0, len |-> n, cap |-> c]]

\* Mutant: append(a[:k], ins...), which overwrites the tail of a.
InsertAtOverwrite(h, a, k, ins) == GoAppend(h, SliceTo(a, k), SliceElems(h, ins))

\* append(a[:k], append(ins, a[k:]...)...): the inner append is evaluated
\* first, then the outer one.
InsertAt(h, a, k, ins) ==
    LET inner == GoAppend(h, ins, SliceElems(h, SliceFrom(a, k)))
    IN  GoAppend(inner.heap, SliceTo(a, k), SliceElems(inner.heap, inner.slice))

\* initTabOptions: the common tabs, Send after Info for a wallet that is not
\* watching-only, and for a DCR wallet StakeShuffle (not watching-only) and
\* Staking before Accounts.
initTabOptions(watchOnly, isDCR) ==
    LET c0 == SliceLit(<<>>, <<"Info", "Receive", "Transactions", "Accounts", "Settings">>)
        c1 == IF ~watchOnly
              THEN LET st == SliceLit(c0.heap, <<"Send">>)
                   IN  InsertAt(st.heap, c0.slice, 1, st.slice)
              ELSE c0
        c2 == IF isDCR
              THEN LET d0 == SliceLit(c1.heap, <<>>)
                       d1 == IF ~watchOnly THEN GoAppend(d0.heap, d0.slice, <<"StakeShuffle">>)
                             ELSE d0
                       d2 == GoAppend(d1.heap, d1.slice, <<"Staking">>)
                       insertIndex == IF ~watchOnly THEN 3 + 1 ELSE 3
                   IN  InsertAt(d2.heap, c1.slice, insertIndex, d2.slice)
              ELSE c1
    IN  SliceElems(c2.heap, c2.slice)

TabsOf(w) == initTabOptions(IsWatchingOnlyWallet(w), IsDCRWallet(w))

MNoReg == [sync |-> [w \in MasterWallets |-> FALSE],
           txblock |-> [w \in MasterWallets |-> FALSE],
           proposal |-> FALSE]

\* The sub-pages the tabs display; only the first two have a new-tx update.
SubPageIDs == {"Transactions", "Info", "Send"}

NoCallback == [kind |-> "none", status |-> "", txType |-> "", direction |-> "",
               setting |-> FALSE, privacy |-> FALSE,
               posted |-> "", forwards |-> 0, balance |-> FALSE, reload |-> FALSE,
               beep |-> FALSE]
NoGo == [pc |-> "none", id |-> "none"]

\* No callback has been made, no goroutine started.
NtfnIdle ==
    /\ nCalls = 0
    /\ nLast = NoCallback
    /\ nGo = [g \in EventIds |-> NoGo]
    /\ nUpdates = <<>>
    /\ nFault = "none"

\* The threads that call fetchOrders: the UI thread (scrolling, the status
\* dropdown), the goroutine OnNavigatedTo starts, the notification loop.
OrderThreads == {"ui", "attach", "consumer"}
NoFetch == [pc |-> "idle", loadMore |-> FALSE, offset |-> 0, res |-> 0]
NoIssue == [made |-> FALSE, items |-> 0, initialDone |-> FALSE, loadedAll |-> FALSE,
            atEnd |-> FALSE, short |-> FALSE]

\* NewOrderHistoryPage: no orders, the three flags false.
OrdersIdle ==
    /\ oAttached = FALSE
    /\ oItems = 0
    /\ oLoading = FALSE
    /\ oInitialDone = FALSE
    /\ oLoadedAll = FALSE
    /\ oThreads = [t \in OrderThreads |-> NoFetch]
    /\ oFetches = 0
    /\ oShort = FALSE
    /\ oIssue = NoIssue

\* The master page before its first OnNavigatedTo; nothing of it moves.
MIdle ==
    /\ selectedWallet = 1
    /\ mReg = MNoReg
    /\ mGovAllowed = TRUE
    /\ mDisplayed = FALSE
    /\ mChild = FALSE
    /\ mNav = 0
    /\ mAddCalls = <<>>
    /\ mAbsentRemoved = 0
    /\ mBackedUp = [w \in MasterWallets |-> TRUE]
    /\ mBackupLater = [w \in MasterWallets |-> FALSE]
    /\ mPrompt = FALSE
    /\ mPolSyncing = FALSE
    /\ mTabs = TabsOf(selectedWallet)
    /\ mPrevWallet = 0
    /\ mLaterClicked = [w \in MasterWallets |-> FALSE]
    /\ mSubPage = "none"
    /\ NtfnIdle
    /\ OrdersIdle

\* NewSingleWalletMasterPage, for any wallet, privacy setting and backup
\* state of the wallets; a watching-only wallet has no seed to back up.
MInit ==
    /\ selectedWallet \in MasterWallets
    /\ mReg = MNoReg
    /\ mGovAllowed \in BOOLEAN
    /\ mDisplayed = FALSE
    /\ mChild = FALSE
    /\ mNav = 0
    /\ mAddCalls = <<>>
    /\ mAbsentRemoved = 0
    /\ mBackedUp \in {b \in [MasterWallets -> BOOLEAN] :
                      \A w \in MasterWallets : IsWatchingOnlyWallet(w) => b[w]}
    /\ mBackupLater = [w \in MasterWallets |-> FALSE]
    /\ mPrompt = FALSE
    /\ mPolSyncing = FALSE
    /\ mTabs = TabsOf(selectedWallet)
    /\ mPrevWallet = 0
    /\ mLaterClicked = [w \in MasterWallets |-> FALSE]
    /\ mSubPage = "none"
    /\ NtfnIdle
    /\ OrdersIdle

\* ------------------------------------------------------------- UI thread
\* Mutant: the guard is missing, every attach registers.
AlreadyListeningNever(l) == FALSE

\* Mutant: the guard only looks for a listener the engine does not hold.
AlreadyListeningWhenAddFailed(l) == l # NoListener /\ l \notin registered

\* The guard of listenForMixerNotifications / listenForSyncNotifications:
\* if pg.XxxNotificationListener != nil { return }
AlreadyListening(l) == l # NoListener

\* The page holds a registration the engine knows.
Attached == visible /\ pgListener # NoListener /\ pgListener \in registered

\* Mutant: the goroutine is started whatever AddListener returned.
listenForNotificationsIgnoreError ==
    IF AlreadyListening(pgListener)
    THEN UNCHANGED <<pgListener, nListeners, chans, registered, loops, dupAdd, addErrLog>>
    ELSE \E ok \in AddListenerResults(registered) :
           LET l == nListeners + 1 IN
           /\ pgListener' = l
           /\ nListeners' = l
           /\ chans' = [chans EXCEPT ![l] = NewChan]
           /\ registered' = AddListener(registered, l, ok)
           /\ dupAdd' = (dupAdd \/ registered # {})
           /\ addErrLog' = IF ok THEN addErrLog ELSE addErrLog \cup {l}
           /\ loops' = [loops EXCEPT ![l].pc = "top"]

\* listenForMixerNotifications / listenForSyncNotifications: return if a
\* listener is already set; else create the adapter, register it under the
\* page ID, and when the engine accepts it start the goroutine.
listenForNotifications ==
    IF AlreadyListening(pgListener)
    THEN UNCHANGED <<pgListener, nListeners, chans, registered, loops, dupAdd, addErrLog>>
    ELSE \E ok \in AddListenerResults(registered) :
           LET l == nListeners + 1 IN
           /\ pgListener' = l
           /\ nListeners' = l
           /\ chans' = [chans EXCEPT ![l] = NewChan]
           /\ registered' = AddListener(registered, l, ok)
           /\ dupAdd' = (dupAdd \/ registered # {})
           /\ addErrLog' = IF ok THEN addErrLog ELSE addErrLog \cup {l}
           /\ loops' = IF ok THEN [loops EXCEPT ![l].pc = "top"] ELSE loops

\* OnNavigatedTo: pg.ctx, pg.ctxCancel = context.WithCancel(...), then the
\* listenFor...Notifications call.
OnNavigatedTo ==
    /\ NoFault
    /\ pgCtx < MaxAttach
    /\ pgCtx' = pgCtx + 1
    /\ visible' = TRUE
    /\ listenForNotifications
    /\ UNCHANGED <<page, cancelled, eng, evStatus, enqueued, handled, completed,
                   nDetach, midFlight, fault>>
    /\ UNCHANGED NotRegVars

\* The page checks pg.ctxCancel for nil before calling it: only the
\* OrderHistoryPage does.
ChecksCtxCancel(p) == p = OrderHistoryPageID

\* OnNavigatedFrom: pg.ctxCancel(). Cancelling twice is harmless; calling
\* the nil CancelFunc of a page that was never navigated to panics.
OnNavigatedFrom ==
    /\ NoFault
    /\ IF pgCtx = NoCtx
       THEN /\ fault' = IF ChecksCtxCancel(page) THEN fault ELSE "nilDeref"
            /\ UNCHANGED <<cancelled, visible, nDetach, midFlight, loops>>
       ELSE /\ cancelled' = cancelled \cup {pgCtx}
            /\ visible' = FALSE
            /\ nDetach' = IF Attached THEN nDetach + 1 ELSE nDetach
            /\ midFlight' = midFlight \cup
                      {loops[l].cur : l \in {x \in ListenerIds :
                                               loops[x].pc = "handle" /\ loops[x].cur # NoEvent}}
            /\ loops' = [l \in ListenerIds |->
                   IF loops[l].pc = "handle" THEN [loops[l] EXCEPT !.det = TRUE] ELSE loops[l]]
            /\ UNCHANGED fault
    /\ UNCHANGED <<page, pgCtx, pgListener, nListeners, chans, registered,
                   eng, evStatus, enqueued, handled, completed, dupAdd, addErrLog>>
    /\ UNCHANGED NotRegVars

\* ---------------------------------------------------------- engine threads
\* The adapter the engine's callback lands on. The mixer page registers
\* itself (AddAccountMixerNotificationListener(pg, ...)), so the callback
\* goes through pg's embedded pointer as it is at the call; the other pages
\* register the adapter object.
CallbackTarget == IF page = AccountMixerPageID THEN pgListener
                  ELSE CHOOSE l \in registered : TRUE

\* An engine thread takes the read lock and enters a callback of the
\* registered listener with a notification of status st.
EngineCallback(t, st) ==
    /\ NoFault
    /\ st \in StatusesOf(page)
    /\ eng[t] = Idle
    /\ registered # {}
    /\ Len(evStatus) < MaxEvents
    /\ IF CallbackTarget = NoListener
       THEN /\ fault' = "nilDeref"
            /\ UNCHANGED <<eng, evStatus>>
       ELSE /\ eng' = [eng EXCEPT ![t] = [l |-> CallbackTarget, ev |-> Len(evStatus) + 1]]
            /\ evStatus' = Append(evStatus, st)
            /\ UNCHANGED fault
    /\ UNCHANGED <<page, pgCtx, cancelled, pgListener, nListeners, chans, registered,
                   loops, enqueued, handled, completed, visible, nDetach, midFlight,
                   dupAdd, addErrLog>>
    /\ UNCHANGED NotRegVars

\* The adapter's blocking send: it waits while the channel is full and
\* panics when the channel is closed.
EngineSend(t) ==
    /\ NoFault
    /\ eng[t] # Idle
    /\ CanSend(chans[eng[t].l], ListenerChanCap)
    /\ IF chans[eng[t].l].closed
       THEN /\ fault' = "sendOnClosed"
            /\ UNCHANGED <<chans, eng, enqueued>>
       ELSE /\ chans' = [chans EXCEPT ![eng[t].l] = UpdateNotification(@, eng[t].ev)]
            /\ enqueued' = Append(enqueued, eng[t].ev)
            /\ eng' = [eng EXCEPT ![t] = Idle]
            /\ UNCHANGED fault
    /\ UNCHANGED <<page, pgCtx, cancelled, pgListener, nListeners, registered, loops,
                   evStatus, handled, completed, visible, nDetach, midFlight, dupAdd, addErrLog>>
    /\ UNCHANGED NotRegVars

\* ------------------------------------------------------- the goroutine
\* select { ... }: the channel operands pg.XxxChan and pg.ctx.Done() are
\* evaluated on entry, through pg, as the fields are at that moment.
LoopTop(l) ==
    /\ NoFault
    /\ loops[l].pc = "top"
    /\ IF pgListener = NoListener
       THEN /\ fault' = "nilDeref"
            /\ UNCHANGED loops
       ELSE /\ loops' = [loops EXCEPT ![l] = [loops[l] EXCEPT !.pc = "select", !.ch = pgListener,
                                                               !.ctx = pgCtx]]
            /\ UNCHANGED fault
    /\ UNCHANGED <<page, pgCtx, cancelled, pgListener, nListeners, chans, registered,
                   eng, evStatus, enqueued, handled, completed, visible, nDetach,
                   midFlight, dupAdd, addErrLog>>
    /\ UNCHANGED NotRegVars

\* case n := <-pg.XxxChan: taken when a notification is ready, whatever the
\* state of the context (Go picks among the ready cases at random).
LoopRecv(l) ==
    /\ NoFault
    /\ loops[l].pc = "select"
    /\ CanRecv(chans[loops[l].ch])
    /\ loops' = [loops EXCEPT ![l].pc = "handle", ![l].det = FALSE,
                               ![l].cur = RecvValue(chans[loops[l].ch])]
    /\ chans' = [chans EXCEPT ![loops[l].ch] = RecvRest(@)]
    /\ UNCHANGED <<page, pgCtx, cancelled, pgListener, nListeners, registered, eng,
                   evStatus, enqueued, handled, completed, visible, nDetach, midFlight,
                   dupAdd, addErrLog, fault>>
    /\ UNCHANGED NotRegVars

\* The status for which the page's handler records completion.
CompletesPage(p, st) ==
    \/ p = AccountMixerPageID /\ st = "MixerEnded"
    \/ p = ProposalsPageID /\ st = "Synced"

\* Mutant: the handler gives up without handling when the page context was
\* cancelled while it ran.
LoopHandleAbortOnCancel(l) ==
    /\ NoFault
    /\ loops[l].pc = "handle"
    /\ LET e == loops[l].cur IN
       /\ handled' = IF e = NoEvent \/ loops[l].ctx \in cancelled
                     THEN handled ELSE Append(handled, e)
       /\ completed' = (completed \/ (e # NoEvent /\ CompletesPage(page, evStatus[e])))
    /\ loops' = [loops EXCEPT ![l].pc = "top", ![l].cur = NoEvent]
    /\ UNCHANGED <<page, pgCtx, cancelled, pgListener, nListeners, chans, registered,
                   eng, evStatus, enqueued, visible, nDetach, midFlight, dupAdd, addErrLog, fault>>
    /\ UNCHANGED NotRegVars

\* The body of the notification case: the page-specific handling, then
\* back to the top of the for loop.
LoopHandle(l) ==
    /\ NoFault
    /\ loops[l].pc = "handle"
    /\ LET e == loops[l].cur IN
       /\ handled' = IF e = NoEvent THEN handled ELSE Append(handled, e)
       /\ completed' = (completed \/ (e # NoEvent /\ CompletesPage(page, evStatus[e])))
    /\ loops' = [loops EXCEPT ![l].pc = "top", ![l].cur = NoEvent]
    /\ UNCHANGED <<page, pgCtx, cancelled, pgListener, nListeners, chans, registered,
                   eng, evStatus, enqueued, visible, nDetach, midFlight, dupAdd, addErrLog, fault>>
    /\ UNCHANGED NotRegVars

\* Mutant: the channel is closed before the adapter is unregistered.
TeardownCloseFirst == <<"close", "remove", "clear">>

\* Mutant: the listener reference is cleared before the channel is closed.
TeardownClearBeforeClose == <<"remove", "clear", "close">>

\* The three teardown statements of the cancellation case, in program order:
\* RemoveListener(PageID); close(pg.XxxChan); pg.XxxNotificationListener = nil
TeardownOrder == <<"remove", "close", "clear">>

TeardownNext(pc) ==
    LET i == CHOOSE k \in 1..Len(TeardownOrder) : TeardownOrder[k] = pc IN
    IF i < Len(TeardownOrder) THEN TeardownOrder[i + 1] ELSE "done"

\* case <-pg.ctx.Done(): taken when the context read at select entry has
\* been cancelled.
LoopCancel(l) ==
    /\ NoFault
    /\ loops[l].pc = "select"
    /\ loops[l].ctx \in cancelled
    /\ loops' = [loops EXCEPT ![l].pc = TeardownOrder[1], ![l].det = FALSE]
    /\ UNCHANGED <<page, pgCtx, cancelled, pgListener, nListeners, chans, registered,
                   eng, evStatus, enqueued, handled, completed, visible, nDetach,
                   midFlight, dupAdd, addErrLog, fault>>
    /\ UNCHANGED NotRegVars

\* RemoveXxxNotificationListener(PageID): waits for the engine's write lock.
LoopRemove(l) ==
    /\ NoFault
    /\ loops[l].pc = "remove"
    /\ CallbacksInFlight = {}
    /\ registered' = RemoveListener(registered)
    /\ loops' = [loops EXCEPT ![l].pc = TeardownNext("remove")]
    /\ UNCHANGED <<page, pgCtx, cancelled, pgListener, nListeners, chans, eng,
                   evStatus, enqueued, handled, completed, visible, nDetach, midFlight,
                   dupAdd, addErrLog, fault>>
    /\ UNCHANGED NotRegVars

\* close(pg.XxxChan): through pg's embedded pointer as it is now.
LoopClose(l) ==
    /\ NoFault
    /\ loops[l].pc = "close"
    /\ IF pgListener = NoListener
       THEN /\ fault' = "nilDeref"
            /\ UNCHANGED <<chans, loops>>
       ELSE IF chans[pgListener].closed
       THEN /\ fault' = "doubleClose"
            /\ UNCHANGED <<chans, loops>>
       ELSE /\ chans' = [chans EXCEPT ![pgListener].closed = TRUE]
            /\ loops' = [loops EXCEPT ![l].pc = TeardownNext("close")]
            /\ UNCHANGED fault
    /\ UNCHANGED <<page, pgCtx, cancelled, pgListener, nListeners, registered, eng,
                   evStatus, enqueued, handled, completed, visible, nDetach, midFlight,
                   dupAdd, addErrLog>>
    /\ UNCHANGED NotRegVars

\* pg.XxxNotificationListener = nil; return
LoopClear(l) ==
    /\ NoFault
    /\ loops[l].pc = "clear"
    /\ pgListener' = NoListener
    /\ loops' = [loops EXCEPT ![l].pc = TeardownNext("clear")]
    /\ UNCHANGED <<page, pgCtx, cancelled, nListeners, chans, registered, eng,
                   evStatus, enqueued, handled, completed, visible, nDetach, midFlight,
                   dupAdd, addErrLog, fault>>
    /\ UNCHANGED NotRegVars

Next ==
    \/ OnNavigatedTo
    \/ OnNavigatedFrom
    \/ \E t \in EngThreads, st \in AllStatuses : EngineCallback(t, st)
    \/ \E t \in EngThreads : EngineSend(t)
    \/ \E l \in ListenerIds : LoopTop(l)
    \/ \E l \in ListenerIds : LoopRecv(l)
    \/ \E l \in ListenerIds : LoopHandle(l)
    \/ \E l \in ListenerIds : LoopCancel(l)
    \/ \E l \in ListenerIds : LoopRemove(l)
    \/ \E l \in ListenerIds : LoopClose(l)
    \/ \E l \in ListenerIds : LoopClear(l)

Init == RegInit /\ TxIdle /\ TbInit /\ MIdle

Spec == Init /\ [][Next]_vars

\* ===================================================================
\* TransactionsPage (SpecTxPage)
\* ===================================================================
LiveTxLoops == {n \in CtxIds : txLoops[n].pc \notin {"none", "done"}}

\* The page is displayed: its last lifecycle call was OnResume.
TxResumed == txCtx # NoCtx /\ txCtx \notin txCancelled

\* OnResume: a fresh page context, then listenForTxNotifications starts a
\* goroutine (there is no guard), then loadTransactions. The navigator
\* resumes a page only when it is not displayed.
OnResume ==
    /\ ~TxResumed
    /\ txCtx < MaxAttach
    /\ txCtx' = txCtx + 1
    /\ txLoops' = [txLoops EXCEPT ![txCtx + 1].pc = "top"]
    /\ transactions' = Cardinality({e \in 1..Len(txEvents) :
                          txEvents[e].type = "NewTransaction" /\ txEvents[e].walletID = txSelected})
    /\ UNCHANGED <<txCancelled, rcv, txSender, txEvents, txHandled, txSelected>>
    /\ UNCHANGED NotTxVars

\* OnClose: pg.ctxCancel(). The navigator closes a page that is displayed.
OnClose ==
    /\ TxResumed
    /\ txCancelled' = txCancelled \cup {txCtx}
    /\ UNCHANGED <<txCtx, txLoops, rcv, txSender, txEvents, txHandled, txSelected,
                   transactions>>
    /\ UNCHANGED NotTxVars

\* The wallet backend produces a notification and starts sending it on
\* Receiver.NotificationsUpdate.
BackendNotify(ty, w) ==
    /\ txSender = NoEvent
    /\ Len(txEvents) < MaxEvents
    /\ txEvents' = Append(txEvents, [type |-> ty, walletID |-> w])
    /\ txSender' = Len(txEvents) + 1
    /\ UNCHANGED <<txCtx, txCancelled, txLoops, rcv, txHandled, txSelected, transactions>>
    /\ UNCHANGED NotTxVars

\* The backend's send completes when the channel has room.
BackendSend ==
    /\ txSender # NoEvent
    /\ Len(rcv.buf) < ReceiverChanCap
    /\ rcv' = UpdateNotification(rcv, txSender)
    /\ txSender' = NoEvent
    /\ UNCHANGED <<txCtx, txCancelled, txLoops, txEvents, txHandled, txSelected,
                   transactions>>
    /\ UNCHANGED NotTxVars

\* select { ... }: pg.ctx.Done() is evaluated on entry, through pg.
TxLoopTop(n) ==
    /\ txLoops[n].pc = "top"
    /\ txLoops' = [txLoops EXCEPT ![n].pc = "select", ![n].ctx = txCtx]
    /\ UNCHANGED <<txCtx, txCancelled, rcv, txSender, txEvents, txHandled, txSelected,
                   transactions>>
    /\ UNCHANGED NotTxVars

\* case notification = <-pg.Receiver.NotificationsUpdate:
TxLoopRecv(n) ==
    /\ txLoops[n].pc = "select"
    /\ CanRecv(rcv)
    /\ txLoops' = [txLoops EXCEPT ![n].pc = "handle", ![n].cur = RecvValue(rcv)]
    /\ rcv' = RecvRest(rcv)
    /\ UNCHANGED <<txCtx, txCancelled, txSender, txEvents, txHandled, txSelected,
                   transactions>>
    /\ UNCHANGED NotTxVars

\* case <-pg.ctx.Done(): return
TxLoopCancel(n) ==
    /\ txLoops[n].pc = "select"
    /\ txLoops[n].ctx \in txCancelled
    /\ txLoops' = [txLoops EXCEPT ![n].pc = "done"]
    /\ UNCHANGED <<txCtx, txCancelled, rcv, txSender, txEvents, txHandled, txSelected,
                   transactions>>
    /\ UNCHANGED NotTxVars

\* switch n := notification.(type): a NewTransaction of the selected wallet
\* reloads the transactions and refreshes the window.
TxLoopHandle(n) ==
    /\ txLoops[n].pc = "handle"
    /\ LET e == txLoops[n].cur IN
       /\ txHandled' = Append(txHandled, [ev |-> e, by |-> n])
       /\ transactions' =
            IF txEvents[e].type = "NewTransaction" /\ txEvents[e].walletID = txSelected
            THEN Cardinality({x \in 1..Len(txEvents) :
                    txEvents[x].type = "NewTransaction" /\ txEvents[x].walletID = txSelected})
            ELSE transactions
    /\ txLoops' = [txLoops EXCEPT ![n].pc = "top", ![n].cur = NoEvent]
    /\ UNCHANGED <<txCtx, txCancelled, rcv, txSender, txEvents, txSelected>>
    /\ UNCHANGED NotTxVars

TxNext ==
    \/ OnResume
    \/ OnClose
    \/ \E ty \in TxTypes, w \in TxWalletIDs : BackendNotify(ty, w)
    \/ BackendSend
    \/ \E n \in CtxIds : TxLoopTop(n)
    \/ \E n \in CtxIds : TxLoopRecv(n)
    \/ \E n \in CtxIds : TxLoopCancel(n)
    \/ \E n \in CtxIds : TxLoopHandle(n)

\* The registering page and the adapter stay as constructed.
RegIdle ==
    /\ page = AccountMixerPageID
    /\ pgCtx = NoCtx
    /\ cancelled = {}
    /\ pgListener = NoListener
    /\ nListeners = 0
    /\ chans = [l \in ListenerIds |-> NewChan]
    /\ registered = {}
    /\ loops = [l \in ListenerIds |-> NoLoop]
    /\ eng = [t \in EngThreads |-> Idle]
    /\ evStatus = <<>>
    /\ enqueued = <<>>
    /\ handled = <<>>
    /\ completed = FALSE
    /\ visible = FALSE
    /\ nDetach = 0
    /\ midFlight = {}
    /\ dupAdd = FALSE
    /\ addErrLog = {}
    /\ fault = "none"

InitTxPage == RegIdle /\ TxInit /\ TbInit /\ MIdle

SpecTxPage == InitTxPage /\ [][TxNext]_vars

\* ===================================================================
\* TxAndBlockNotificationListener (SpecTxBlock)
\* ===================================================================
\* A callback begins: the notification it builds is recorded with the set of
\* callbacks that had already returned when it was called.
TbBegin(t, n) ==
    /\ tbEng[t] = NoEvent
    /\ Len(tbEvents) < MaxTbEvents
    /\ tbEvents' = Append(tbEvents, [n EXCEPT !.after = tbReturned])

\* Mutant: the unmarshalling error is ignored and the notification is sent.
OnTransactionNoCheck(t, wellFormed) ==
    /\ TbBegin(t, [type |-> "NewTransaction", walletID |-> 0, height |-> 0, hash |-> "",
                   tx |-> wellFormed, after |-> {}])
    /\ tbEng' = [tbEng EXCEPT ![t] = Len(tbEvents) + 1]
    /\ UNCHANGED <<tbChan, tbReturned, tbLogged, tbHandled>>
    /\ UNCHANGED NotTbVars

\* OnTransaction(transaction string): json.Unmarshal; on error log and
\* return; else UpdateNotification(TxNotification{NewTransaction, &tx}).
OnTransaction(t, wellFormed) ==
    /\ TbBegin(t, [type |-> "NewTransaction", walletID |-> 0, height |-> 0, hash |-> "",
                   tx |-> wellFormed, after |-> {}])
    /\ IF wellFormed
       THEN /\ tbEng' = [tbEng EXCEPT ![t] = Len(tbEvents) + 1]
            /\ UNCHANGED <<tbReturned, tbLogged>>
       ELSE /\ tbLogged' = tbLogged \cup {Len(tbEvents) + 1}
            /\ tbReturned' = tbReturned \cup {Len(tbEvents) + 1}
            /\ UNCHANGED tbEng
    /\ UNCHANGED <<tbChan, tbHandled>>
    /\ UNCHANGED NotTbVars

\* OnBlockAttached(walletID, blockHeight)
OnBlockAttached(t, w, h) ==
    /\ TbBegin(t, [type |-> "BlockAttached", walletID |-> w, height |-> h, hash |-> "",
                   tx |-> FALSE, after |-> {}])
    /\ tbEng' = [tbEng EXCEPT ![t] = Len(tbEvents) + 1]
    /\ UNCHANGED <<tbChan, tbReturned, tbLogged, tbHandled>>
    /\ UNCHANGED NotTbVars

\* OnTransactionConfirmed(walletID, hash, blockHeight)
OnTransactionConfirmed(t, w, hash, h) ==
    /\ TbBegin(t, [type |-> "TxConfirmed", walletID |-> w, height |-> h, hash |-> hash,
                   tx |-> FALSE, after |-> {}])
    /\ tbEng' = [tbEng EXCEPT ![t] = Len(tbEvents) + 1]
    /\ UNCHANGED <<tbChan, tbReturned, tbLogged, tbHandled>>
    /\ UNCHANGED NotTbVars

\* UpdateNotification's send completes when the channel has room; the
\* callback then returns to the engine.
TbSend(t) ==
    /\ tbEng[t] # NoEvent
    /\ CanSend(tbChan, TxAndBlockNotifChanCap)
    /\ tbChan' = UpdateNotification(tbChan, tbEng[t])
    /\ tbReturned' = tbReturned \cup {tbEng[t]}
    /\ tbEng' = [tbEng EXCEPT ![t] = NoEvent]
    /\ UNCHANGED <<tbEvents, tbLogged, tbHandled>>
    /\ UNCHANGED NotTbVars

\* The consumer receives the next notification and dispatches it.
TbConsume ==
    /\ CanRecv(tbChan)
    /\ tbHandled' = Append(tbHandled, RecvValue(tbChan))
    /\ tbChan' = RecvRest(tbChan)
    /\ UNCHANGED <<tbEng, tbEvents, tbReturned, tbLogged>>
    /\ UNCHANGED NotTbVars

TbNext ==
    \/ \E t \in TbThreads, ok \in BOOLEAN : OnTransaction(t, ok)
    \/ \E t \in TbThreads, w \in TbWalletIDs, h \in TbHeights : OnBlockAttached(t, w, h)
    \/ \E t \in TbThreads, w \in TbWalletIDs, x \in TbHashes, h \in TbHeights :
         OnTransactionConfirmed(t, w, x, h)
    \/ \E t \in TbThreads : TbSend(t)
    \/ TbConsume

InitTxBlock == RegIdle /\ TxIdle /\ TbInit /\ MIdle

SpecTxBlock == InitTxBlock /\ [][TbNext]_vars

\* ===================================================================
\* SingleWalletMasterPage (SpecMaster)
\* ===================================================================
\* Add...Listener(listener, MainPageID): an error when the name is present
\* or when the engine rejects the registration.
MasterAddResults(present) == IF present THEN {FALSE} ELSE {TRUE, FALSE}

\* Remove...Listener(MainPageID): the entry is gone afterwards; a no-op when
\* it was absent.
MasterRemove(present) == FALSE

\* Mutant: a failed registration undoes the ones made before it.
swmpListenForNotificationsRollback(reg, w, gov, okS, okT, okP) ==
    IF okS /\ okT /\ (gov => okP)
    THEN [reg EXCEPT !.sync[w] = TRUE, !.txblock[w] = TRUE, !.proposal = (@ \/ gov)]
    ELSE reg

\* listenForNotifications: AddSyncProgressListener, on error return;
\* AddTxAndBlockNotificationListener, on error return; when the governance
\* API is allowed, Politeia.AddSyncCallback. okS, okT, okP are the engine's
\* answers.
swmpListenForNotifications(reg, w, gov, okS, okT, okP) ==
    LET r1 == IF okS THEN [reg EXCEPT !.sync[w] = TRUE] ELSE reg
        r2 == IF okS /\ okT THEN [r1 EXCEPT !.txblock[w] = TRUE] ELSE r1
    IN  IF okS /\ okT /\ gov /\ okP THEN [r2 EXCEPT !.proposal = TRUE] ELSE r2

\* The Add calls listenForNotifications makes, in program order.
swmpAddCalls(gov, okS, okT, okP) ==
    <<[dom |-> "sync", ok |-> okS]>>
      \o (IF okS THEN <<[dom |-> "txblock", ok |-> okT]>> ELSE <<>>)
      \o (IF okS /\ okT /\ gov THEN <<[dom |-> "proposal", ok |-> okP]>> ELSE <<>>)

\* Mutant: the proposal callback is not removed.
stopNtfnListenersKeepProposal(reg, w) ==
    [reg EXCEPT !.sync[w] = MasterRemove(@), !.txblock[w] = MasterRemove(@)]

\* stopNtfnListeners: the three Remove calls, unconditionally.
stopNtfnListeners(reg, w) ==
    [reg EXCEPT !.sync[w] = MasterRemove(@), !.txblock[w] = MasterRemove(@),
                !.proposal = MasterRemove(@)]

\* How many of the three Remove calls find no entry.
AbsentRemoves(reg, w) ==
    (IF reg.sync[w] THEN 0 ELSE 1) + (IF reg.txblock[w] THEN 0 ELSE 1)
      + (IF reg.proposal THEN 0 ELSE 1)

\* The part of OnNavigatedTo that depends on the wallet w and on the current
\* sub-page cur (the Info page is displayed when there is none): the backup
\* prompt (showBackupInfo when the wallet needs a backup and the user has
\* not chosen "later"), listenForNotifications, and the start of a Politeia
\* sync for a DCR wallet that fetches proposals.
swmpAttach(w, reg, later, okS, okT, okP, fetch, cur) ==
    /\ mChild' = TRUE
    /\ mSubPage' = IF cur = "none" THEN "Info" ELSE cur
    /\ mPrompt' = (~mBackedUp[w] /\ ~later[w])
    /\ mReg' = swmpListenForNotifications(reg, w, mGovAllowed, okS, okT, okP)
    /\ mAddCalls' = swmpAddCalls(mGovAllowed, okS, okT, okP)
    /\ mPolSyncing' = (mPolSyncing \/ (IsDCRWallet(w) /\ fetch /\ mGovAllowed))

\* OnNavigatedTo of the master page.
swmpOnNavigatedTo(okS, okT, okP, fetch) ==
    /\ ~mDisplayed
    /\ mNav < MaxMasterNav
    /\ okS \in MasterAddResults(mReg.sync[selectedWallet])
    /\ okT \in MasterAddResults(mReg.txblock[selectedWallet])
    /\ okP \in MasterAddResults(mReg.proposal)
    /\ mDisplayed' = TRUE
    /\ mNav' = mNav + 1
    /\ swmpAttach(selectedWallet, mReg, mBackupLater, okS, okT, okP, fetch, mSubPage)
    /\ UNCHANGED <<selectedWallet, mGovAllowed, mAbsentRemoved, mBackedUp, mBackupLater, mTabs, mPrevWallet, mLaterClicked>>
    /\ UNCHANGED NotMVars

\* Mutant: OnNavigatedFrom leaves the backup-later flag alone.
swmpResetBackupLaterNever(later, w) == later

\* The backup-later flag after OnNavigatedFrom: reset for a wallet that is
\* not backed up.
swmpResetBackupLater(later, w) ==
    IF ~mBackedUp[w] THEN [later EXCEPT ![w] = FALSE] ELSE later

\* OnNavigatedFrom of the master page: the sub-page's OnNavigatedFrom, the
\* reset of the backup-later flag, stopNtfnListeners.
swmpOnNavigatedFrom ==
    /\ mDisplayed
    /\ mDisplayed' = FALSE
    /\ mChild' = FALSE
    /\ mPrompt' = FALSE
    /\ mBackupLater' = swmpResetBackupLater(mBackupLater, selectedWallet)
    /\ mAbsentRemoved' = mAbsentRemoved + AbsentRemoves(mReg, selectedWallet)
    /\ mReg' = stopNtfnListeners(mReg, selectedWallet)
    /\ UNCHANGED <<selectedWallet, mGovAllowed, mNav, mAddCalls, mBackedUp, mPolSyncing, mTabs, mPrevWallet, mLaterClicked, mSubPage>>
    /\ UNCHANGED NotMVars

\* Mutant: selectedWallet is replaced before OnNavigatedFrom runs.
swmpStoppedWalletNew(old, new) == new

\* The wallet whose listeners the wallet switch stops: OnNavigatedFrom runs
\* before selectedWallet is replaced.
swmpStoppedWallet(old, new) == old

\* HandleUserInteractions, walletDropdown.Changed: OnNavigatedFrom,
\* CloseAllPages, selectedWallet = the chosen wallet, initTabOptions,
\* OnNavigatedTo.
swmpWalletChanged(w, okS, okT, okP, fetch) ==
    /\ mDisplayed
    /\ mNav < MaxMasterNav
    /\ w # selectedWallet
    /\ LET stopped == stopNtfnListeners(mReg, swmpStoppedWallet(selectedWallet, w))
           later == swmpResetBackupLater(mBackupLater, selectedWallet)
       IN  /\ okS \in MasterAddResults(stopped.sync[w])
           /\ okT \in MasterAddResults(stopped.txblock[w])
           /\ okP \in MasterAddResults(stopped.proposal)
           /\ mBackupLater' = later
           /\ swmpAttach(w, stopped, later, okS, okT, okP, fetch, "none")
    /\ mAbsentRemoved' = mAbsentRemoved + AbsentRemoves(mReg, selectedWallet)
    /\ selectedWallet' = w
    /\ mPrevWallet' = selectedWallet
    /\ mTabs' = TabsOf(w)
    /\ mNav' = mNav + 1
    /\ UNCHANGED <<mGovAllowed, mDisplayed, mBackedUp, mLaterClicked>>
    /\ UNCHANGED NotMVars

\* The "Backup later" button of the modal.
swmpBackupLater ==
    /\ mPrompt
    /\ mBackupLater' = [mBackupLater EXCEPT ![selectedWallet] = TRUE]
    /\ mLaterClicked' = [mLaterClicked EXCEPT ![selectedWallet] = TRUE]
    /\ mPrompt' = FALSE
    /\ UNCHANGED <<selectedWallet, mReg, mGovAllowed, mDisplayed, mChild, mNav, mAddCalls,
                   mAbsentRemoved, mBackedUp, mPolSyncing, mTabs, mPrevWallet, mSubPage>>
    /\ UNCHANGED NotMVars

\* The "Backup now" button, followed to the end of the seed backup: the
\* wallet is backed up and the flag is set.
swmpBackupNow ==
    /\ mPrompt
    /\ mBackedUp' = [mBackedUp EXCEPT ![selectedWallet] = TRUE]
    /\ mBackupLater' = [mBackupLater EXCEPT ![selectedWallet] = TRUE]
    /\ mPrompt' = FALSE
    /\ UNCHANGED <<selectedWallet, mReg, mGovAllowed, mDisplayed, mChild, mNav, mAddCalls,
                   mAbsentRemoved, mPolSyncing, mTabs, mPrevWallet, mLaterClicked, mSubPage>>
    /\ UNCHANGED NotMVars

\* The user switches the governance API's privacy mode in the settings.
SetGovernanceAPIAllowed(b) ==
    /\ mGovAllowed # b
    /\ mGovAllowed' = b
    /\ UNCHANGED <<selectedWallet, mReg, mDisplayed, mChild, mNav, mAddCalls,
                   mAbsentRemoved, mBackedUp, mBackupLater, mPrompt, mPolSyncing, mTabs,
           mPrevWallet, mLaterClicked, mTabs, mPrevWallet, mLaterClicked, mSubPage>>
    /\ UNCHANGED NotMVars

\* The Politeia sync started by OnNavigatedTo ends.
PoliteiaSyncEnds ==
    /\ mPolSyncing
    /\ mPolSyncing' = FALSE
    /\ UNCHANGED <<selectedWallet, mReg, mGovAllowed, mDisplayed, mChild, mNav, mAddCalls,
                   mAbsentRemoved, mBackedUp, mBackupLater, mPrompt, mTabs, mPrevWallet, mLaterClicked, mSubPage>>
    /\ UNCHANGED NotMVars

MNext ==
    \/ \E okS, okT, okP, fetch \in BOOLEAN : swmpOnNavigatedTo(okS, okT, okP, fetch)
    \/ swmpOnNavigatedFrom
    \/ \E w \in MasterWallets, okS, okT, okP, fetch \in BOOLEAN :
         swmpWalletChanged(w, okS, okT, okP, fetch)
    \/ swmpBackupLater
    \/ swmpBackupNow
    \/ \E b \in BOOLEAN : SetGovernanceAPIAllowed(b)
    \/ PoliteiaSyncEnds

InitMaster == RegIdle /\ TxIdle /\ TbInit /\ MInit

SpecMaster == InitMaster /\ [][MNext]_vars

\* ===================================================================
\* Properties of the master page (SpecMaster)
\* ===================================================================
\* The MainPageID registrations the engines hold, over all wallets.
MainRegistrations ==
    {<<"sync", w>> : w \in {x \in MasterWallets : mReg.sync[x]}}
      \cup {<<"txblock", w>> : w \in {x \in MasterWallets : mReg.txblock[x]}}
      \cup (IF mReg.proposal THEN {<<"proposal", 0>>} ELSE {})

\* C18: after OnNavigatedFrom no MainPageID registration is left in any of
\* the three domains, whichever of them listenForNotifications registered;
\* the Remove calls on absent names change nothing.
C18_StopLeavesNoRegistration ==
    ~mDisplayed => MainRegistrations = {}

\* C18 witness: the page was left after a listenForNotifications in which a
\* registration failed or the proposal callback was not asked for, so that
\* stopNtfnListeners removed names that were absent.
C18_Witness ==
    /\ ~mDisplayed
    /\ mNav >= 1
    /\ mAbsentRemoved >= 1
    /\ mAddCalls # <<>>
    /\ mAddCalls[1].ok

\* C21: the MainPageID listeners sit on the selected wallet only: a wallet
\* switch removes them from the old wallet before it registers on the new
\* one, so no other wallet ever holds one.
C21_ListenersOnSelectedWalletOnly ==
    \A w \in MasterWallets \ {selectedWallet} : ~mReg.sync[w] /\ ~mReg.txblock[w]

\* C21 witness: after a wallet switch the listeners are registered on the
\* new wallet.
C21_Witness ==
    /\ mPrevWallet # 0 /\ mPrevWallet # selectedWallet
    /\ mDisplayed
    /\ mReg.sync[selectedWallet] /\ mReg.txblock[selectedWallet]

AllTabs == <<"Info", "Send", "Receive", "Transactions", "StakeShuffle", "Staking",
             "Accounts", "Settings">>
HasTab(tab, watchOnly, isDCR) ==
    IF tab = "Send" THEN ~watchOnly
    ELSE IF tab = "Staking" THEN isDCR
    ELSE IF tab = "StakeShuffle" THEN isDCR /\ ~watchOnly
    ELSE TRUE
ExpectedTabs(watchOnly, isDCR) ==
    LET Keep(tab) == HasTab(tab, watchOnly, isDCR) IN SelectSeq(AllTabs, Keep)

\* C23: initTabOptions yields the tabs in the order Info, Send, Receive,
\* Transactions, StakeShuffle, Staking, Accounts, Settings, with Send for a
\* wallet that is not watching-only, Staking for a DCR wallet, StakeShuffle
\* for a DCR wallet that is not watching-only, nothing else dropped or
\* doubled; the page's tabs are those of the selected wallet.
C23_TabOrder ==
    /\ \A watchOnly, isDCR \in BOOLEAN :
         initTabOptions(watchOnly, isDCR) = ExpectedTabs(watchOnly, isDCR)
    /\ mTabs = ExpectedTabs(IsWatchingOnlyWallet(selectedWallet), IsDCRWallet(selectedWallet))

\* C23 witness: initTabOptions has run for a DCR wallet after a switch from
\* a wallet of another kind, and the tabs have StakeShuffle and Staking
\* right before Accounts.
C23_Witness ==
    /\ mPrevWallet \in {2, 3, 4} /\ selectedWallet = 1
    /\ Len(mTabs) = 8
    /\ mTabs[5] = "StakeShuffle" /\ mTabs[6] = "Staking" /\ mTabs[7] = "Accounts"

\* Is MainPageID registered in the domain, on wallet w.
MainRegistered(dom, w) ==
    IF dom = "sync" THEN mReg.sync[w]
    ELSE IF dom = "txblock" THEN mReg.txblock[w]
    ELSE mReg.proposal

\* C29: listenForNotifications asks for sync-progress, tx/block, proposal
\* in that order, asks for nothing after a failure, and while the page is
\* displayed what was added before the failure stays registered.
C29_RegistrationOrderNoRollback ==
    /\ Len(mAddCalls) <= 3
    /\ \A i \in 1..Len(mAddCalls) :
         /\ mAddCalls[i].dom = <<"sync", "txblock", "proposal">>[i]
         /\ i < Len(mAddCalls) => mAddCalls[i].ok
         /\ mDisplayed => (mAddCalls[i].ok <=> MainRegistered(mAddCalls[i].dom, selectedWallet))
    /\ (mAddCalls # <<>> /\ mAddCalls[Len(mAddCalls)].ok) => Len(mAddCalls) >= 2

\* C29 witness: the tx/block registration failed after the sync-progress
\* one succeeded, and the sync-progress listener is still registered.
C29_Witness ==
    /\ mDisplayed
    /\ Len(mAddCalls) = 2 /\ mAddCalls[1].ok /\ ~mAddCalls[2].ok
    /\ mReg.sync[selectedWallet] /\ ~mReg.txblock[selectedWallet]

\* ===================================================================
\* The master page's callbacks (SpecNtfn)
\* ===================================================================
ProposalCallbackStatuses == {"Synced", "NewProposal", "VoteStarted", "VoteFinished", "Other"}
MasterTxTypes == {"Regular", "Vote", "Revocation", "Other"}
MasterTxDirections == {"Received", "Sent"}

\* postProposalNotification: nothing unless the wallet's proposal
\* notification setting is on or privacy mode is off; else the text for
\* the status.
postProposalNotification(status, setting, privacy) ==
    IF ~(setting \/ ~privacy) THEN ""
    ELSE IF status = "NewProposal" THEN "ProposalAddedNotif"
    ELSE IF status = "VoteStarted" THEN "VoteStartedNotif"
    ELSE IF status = "VoteFinished" THEN "VoteEndedNotif"
    ELSE "NewProposalUpdate"

\* Mutant: the Synced status is not skipped.
proposalSyncCallbackNoSkip(status, setting, privacy) ==
    postProposalNotification(status, setting, privacy)

\* proposalSyncCallback: post for every status except Synced.
proposalSyncCallback(status, setting, privacy) ==
    IF status # "Synced" THEN postProposalNotification(status, setting, privacy) ELSE ""

\* postTransactionNotification: a text for a received regular transaction,
\* a vote, a revocation; nothing for anything else.
postTransactionNotification(txType, direction) ==
    IF txType = "Regular" THEN (IF direction = "Received" THEN "DcrReceived" ELSE "")
    ELSE IF txType = "Vote" THEN "TicketVoted"
    ELSE IF txType = "Revocation" THEN "TicketRevoked"
    ELSE ""

\* A callback is made: the engine holds the listener, the bound on events
\* is not reached.
NtfnBegin ==
    /\ nFault = "none"
    /\ nCalls < MaxEvents
    /\ nCalls' = nCalls + 1

\* listenForSubpage(walletID): go swmp.ListenNewTxForSubPage(walletID)
listenForSubpage(go, n) == [go EXCEPT ![n] = [pc |-> "check", id |-> "none"]]

\* OnTransaction: updateBalance; when transaction notifications are on,
\* postTransactionNotification; Reload; listenForSubpage.
swmpOnTransaction(txType, direction, setting) ==
    /\ NtfnBegin
    /\ mReg.txblock[selectedWallet]
    /\ nLast' = [NoCallback EXCEPT
                   !.kind = "OnTransaction", !.txType = txType, !.direction = direction,
                   !.setting = setting,
                   !.balance = TRUE,
                   !.posted = IF setting THEN postTransactionNotification(txType, direction)
                              ELSE "",
                   !.reload = TRUE,
                   !.forwards = 1]
    /\ nGo' = listenForSubpage(nGo, nCalls + 1)
    /\ UNCHANGED <<nUpdates, nFault, mVars>>
    /\ UNCHANGED NotMNVars

\* OnTransactionConfirmed: listenForSubpage.
swmpOnTransactionConfirmed ==
    /\ NtfnBegin
    /\ mReg.txblock[selectedWallet]
    /\ nLast' = [NoCallback EXCEPT !.kind = "OnTransactionConfirmed", !.forwards = 1]
    /\ nGo' = listenForSubpage(nGo, nCalls + 1)
    /\ UNCHANGED <<nUpdates, nFault, mVars>>
    /\ UNCHANGED NotMNVars

\* Mutant: OnBlockAttached forwards to the sub-page as well.
swmpOnBlockAttachedForwarding(setting) ==
    /\ NtfnBegin
    /\ mReg.txblock[selectedWallet]
    /\ nLast' = [NoCallback EXCEPT !.kind = "OnBlockAttached", !.setting = setting,
                                   !.beep = setting, !.balance = TRUE, !.reload = TRUE,
                                   !.forwards = 1]
    /\ nGo' = listenForSubpage(nGo, nCalls + 1)
    /\ UNCHANGED <<nUpdates, nFault, mVars>>
    /\ UNCHANGED NotMNVars

\* OnBlockAttached: beep when BeepNewBlocksConfigKey is set; updateBalance;
\* Reload.
swmpOnBlockAttached(setting) ==
    /\ NtfnBegin
    /\ mReg.txblock[selectedWallet]
    /\ nLast' = [NoCallback EXCEPT !.kind = "OnBlockAttached", !.setting = setting,
                                   !.beep = setting, !.balance = TRUE, !.reload = TRUE]
    /\ UNCHANGED <<nGo, nUpdates, nFault, mVars>>
    /\ UNCHANGED NotMNVars

\* OnSyncCompleted: updateBalance; Reload.
swmpOnSyncCompleted ==
    /\ NtfnBegin
    /\ mReg.sync[selectedWallet]
    /\ nLast' = [NoCallback EXCEPT !.kind = "OnSyncCompleted", !.balance = TRUE,
                                   !.reload = TRUE]
    /\ UNCHANGED <<nGo, nUpdates, nFault, mVars>>
    /\ UNCHANGED NotMNVars

\* Politeia calls the proposal sync callback.
swmpProposalSync(status, setting, privacy) ==
    /\ NtfnBegin
    /\ mReg.proposal
    /\ nLast' = [NoCallback EXCEPT !.kind = "proposalSyncCallback", !.status = status,
                                   !.setting = setting, !.privacy = privacy,
                                   !.posted = proposalSyncCallback(status, setting, privacy)]
    /\ UNCHANGED <<nGo, nUpdates, nFault, mVars>>
    /\ UNCHANGED NotMNVars

\* ListenNewTxForSubPage, switch swmp.CurrentPageID(): the goroutine reads
\* the ID of the current sub-page; anything but Transactions and Info ends it.
ListenNewTxCheck(g) ==
    /\ nFault = "none"
    /\ nGo[g].pc = "check"
    /\ nGo' = [nGo EXCEPT ![g] = IF mSubPage \in {"Transactions", "Info"}
                                  THEN [pc |-> "use", id |-> mSubPage]
                                  ELSE [pc |-> "done", id |-> mSubPage]]
    /\ UNCHANGED <<nCalls, nLast, nUpdates, nFault, mVars>>
    /\ UNCHANGED NotMNVars

\* swmp.CurrentPage().(*transaction.TransactionsPage).ListenForTxNotification
\* or swmp.CurrentPage().(*info.WalletInfo).ListenForNewTx: CurrentPage()
\* is read again; the type assertion panics when the page is of another
\* type (or nil).
ListenNewTxUse(g) ==
    /\ nFault = "none"
    /\ nGo[g].pc = "use"
    /\ IF mSubPage = nGo[g].id
       THEN /\ nUpdates' = Append(nUpdates, mSubPage)
            /\ nGo' = [nGo EXCEPT ![g].pc = "done"]
            /\ UNCHANGED nFault
       ELSE /\ nFault' = "typeAssertion"
            /\ UNCHANGED <<nUpdates, nGo>>
    /\ UNCHANGED <<nCalls, nLast, mVars>>
    /\ UNCHANGED NotMNVars

\* PageNavigationTab.Changed / changeTab: navigateToSelectedTab displays the
\* page of the chosen tab.
navigateToSelectedTab(p) ==
    /\ nFault = "none"
    /\ mDisplayed
    /\ mSubPage # p
    /\ mSubPage' = p
    /\ UNCHANGED <<selectedWallet, mReg, mGovAllowed, mDisplayed, mChild, mNav, mAddCalls,
                   mAbsentRemoved, mBackedUp, mBackupLater, mPrompt, mPolSyncing, mTabs,
                   mPrevWallet, mLaterClicked>>
    /\ UNCHANGED NotMVars

NtfnNext ==
    \/ swmpOnNavigatedTo(TRUE, TRUE, TRUE, FALSE)
    \/ swmpOnNavigatedFrom
    \/ \E p \in SubPageIDs : navigateToSelectedTab(p)
    \/ \E ty \in MasterTxTypes, d \in MasterTxDirections, b \in BOOLEAN :
         swmpOnTransaction(ty, d, b)
    \/ swmpOnTransactionConfirmed
    \/ \E b \in BOOLEAN : swmpOnBlockAttached(b)
    \/ swmpOnSyncCompleted
    \/ \E st \in ProposalCallbackStatuses, b, pm \in BOOLEAN : swmpProposalSync(st, b, pm)
    \/ \E g \in EventIds : ListenNewTxCheck(g)
    \/ \E g \in EventIds : ListenNewTxUse(g)

InitNtfn == RegIdle /\ TxIdle /\ TbInit /\ MIdle

SpecNtfn == InitNtfn /\ [][NtfnNext]_vars

\* ===================================================================
\* Properties of the master page's callbacks (SpecNtfn)
\* ===================================================================
\* C24: the proposal sync callback posts nothing for Synced; for any other
\* status it posts exactly when the proposal notification setting is on or
\* privacy mode is off, and then the text of that status.
C24_ProposalNotification ==
    nLast.kind = "proposalSyncCallback" =>
      /\ (nLast.posted # "") <=>
           (nLast.status # "Synced" /\ (nLast.setting \/ ~nLast.privacy))
      /\ nLast.posted # "" =>
           nLast.posted = (IF nLast.status = "NewProposal" THEN "ProposalAddedNotif"
                           ELSE IF nLast.status = "VoteStarted" THEN "VoteStartedNotif"
                           ELSE IF nLast.status = "VoteFinished" THEN "VoteEndedNotif"
                           ELSE "NewProposalUpdate")
      /\ nLast.forwards = 0

\* C24 witness: a VoteStarted status was posted with privacy mode on and
\* the setting on.
C24_Witness ==
    /\ nLast.kind = "proposalSyncCallback"
    /\ nLast.status = "VoteStarted" /\ nLast.privacy /\ nLast.setting
    /\ nLast.posted = "VoteStartedNotif"

\* What C25 says of OnTransaction and OnTransactionConfirmed: one forward
\* each, a desktop notification only from OnTransaction and only with
\* transaction notifications on; no other callback forwards or posts one.
TxCallbacksForward ==
    /\ nLast.kind = "OnTransaction" =>
         (nLast.forwards = 1 /\ (nLast.posted # "" => nLast.setting))
    /\ nLast.kind = "OnTransactionConfirmed" => (nLast.forwards = 1 /\ nLast.posted = "")
    /\ nLast.kind \in {"OnBlockAttached", "OnSyncCompleted"} =>
         (nLast.forwards = 0 /\ nLast.posted = "")
    /\ Cardinality({g \in EventIds : nGo[g].pc # "none"}) <= nCalls

\* C25 (as claimed): besides that, OnBlockAttached does nothing but refresh
\* the balance and request a redraw.
C25_BlockAttachedOnlyRefreshes ==
    /\ TxCallbacksForward
    /\ nLast.kind = "OnBlockAttached" => (nLast.balance /\ nLast.reload /\ ~nLast.beep)

\* C25 (amended): OnBlockAttached refreshes the balance, requests a redraw
\* and beeps exactly when the wallet's beep-on-new-block setting is on.
C25_BlockAttachedRefreshesAndBeeps ==
    /\ TxCallbacksForward
    /\ nLast.kind = "OnBlockAttached" =>
         (nLast.balance /\ nLast.reload /\ (nLast.beep <=> nLast.setting))

\* C25 witness: an OnBlockAttached has been handled after an OnTransaction
\* had started its goroutine.
C25_Witness ==
    /\ nLast.kind = "OnBlockAttached"
    /\ nCalls = 2
    /\ Cardinality({g \in EventIds : nGo[g].pc # "none"}) = 1

\* C26 (as claimed): ListenNewTxForSubPage never type-asserts the current
\* page to a type it does not have.
C26_NoWrongTypeAssertion == nFault = "none"

\* ===================================================================
\* The order history page's fetches (SpecOrders)
\* ===================================================================
\* limit := 10
OrdersLimit == 10
\* len(pg.orderItems) < 5: no load-more below five orders
LoadMoreThreshold == 5
\* LoadOrders returned nil
NilOrders == -1
\* What LoadOrders can return for a limit of OrdersLimit: nil, no order, a
\* short page, a full page.  The stored orders under the selected status
\* change between calls (a sync adds orders, orders change status), so any
\* of them can follow any other.
LoadOrdersResults == {NilOrders, 0, OrdersLimit - 3, OrdersLimit}

\* A thread calls fetchOrders(loadMore).
BeginFetch(t, loadMore) ==
    /\ oThreads[t].pc = "idle"
    /\ oFetches < MaxFetches
    /\ oFetches' = oFetches + 1
    /\ oThreads' = [oThreads EXCEPT ![t] = [NoFetch EXCEPT !.pc = "check",
                                                          !.loadMore = loadMore]]

\* OnNavigatedTo: go pg.fetchOrders(false)
OrdersOnNavigatedTo ==
    /\ ~oAttached
    /\ oAttached' = TRUE
    /\ BeginFetch("attach", FALSE)
    /\ UNCHANGED <<oItems, oLoading, oInitialDone, oLoadedAll, oShort, oIssue>>
    /\ UNCHANGED NotOVars

\* The notification loop receives OrderStatusSynced: pg.fetchOrders(false)
OrdersSynced ==
    /\ oAttached
    /\ BeginFetch("consumer", FALSE)
    /\ UNCHANGED <<oAttached, oItems, oLoading, oInitialDone, oLoadedAll, oShort, oIssue>>
    /\ UNCHANGED NotOVars

\* HandleUserInteractions: for pg.statusDropdown.Changed() { pg.fetchOrders(false) }
OrdersStatusChanged ==
    /\ oAttached
    /\ BeginFetch("ui", FALSE)
    /\ UNCHANGED <<oAttached, oItems, oLoading, oInitialDone, oLoadedAll, oShort, oIssue>>
    /\ UNCHANGED NotOVars

\* onScrollChangeListener issues a load-more: at least five orders, the
\* initial load done, the list at its end, loadedAll false.
onScrollIssues(atEnd) ==
    /\ ~(oItems < LoadMoreThreshold \/ ~oInitialDone)
    /\ atEnd
    /\ ~oLoadedAll

\* Layout: onScrollChangeListener, with the list at its end or not.
onScrollChangeListener(atEnd) ==
    /\ oAttached
    /\ oThreads["ui"].pc = "idle"
    /\ oFetches < MaxFetches
    /\ IF onScrollIssues(atEnd)
       THEN /\ BeginFetch("ui", TRUE)
            /\ oIssue' = [made |-> TRUE, items |-> oItems, initialDone |-> oInitialDone,
                          loadedAll |-> oLoadedAll, atEnd |-> atEnd, short |-> oShort]
       ELSE UNCHANGED <<oThreads, oFetches, oIssue>>
    /\ UNCHANGED <<oAttached, oItems, oLoading, oInitialDone, oLoadedAll, oShort>>
    /\ UNCHANGED NotOVars

\* fetchOrders: if pg.loading { return }
FetchCheck(t) ==
    /\ oThreads[t].pc = "check"
    /\ IF oLoading
       THEN /\ oThreads' = [oThreads EXCEPT ![t] = NoFetch]
            /\ UNCHANGED oShort
       ELSE /\ oThreads' = [oThreads EXCEPT ![t].pc = "mark"]
            /\ oShort' = IF oThreads[t].loadMore THEN oShort ELSE FALSE
    /\ UNCHANGED <<oAttached, oItems, oLoading, oInitialDone, oLoadedAll, oFetches, oIssue>>
    /\ UNCHANGED NotOVars

\* fetchOrders: pg.loadedAll = false; pg.loading = true
FetchMark(t) ==
    /\ oThreads[t].pc = "mark"
    /\ oLoadedAll' = FALSE
    /\ oLoading' = TRUE
    /\ oThreads' = [oThreads EXCEPT ![t].pc = "load"]
    /\ oShort' = IF oThreads[t].loadMore THEN oShort ELSE FALSE
    /\ UNCHANGED <<oAttached, oItems, oInitialDone, oFetches, oIssue>>
    /\ UNCHANGED NotOVars

\* fetchOrders: offset is len(pg.orderItems) for a load-more, else 0;
\* LoadOrders(offset, limit) returns.
FetchLoad(t, res) ==
    /\ oThreads[t].pc = "load"
    /\ oThreads' = [oThreads EXCEPT ![t].pc = "apply",
                                    ![t].offset = IF oThreads[t].loadMore THEN oItems ELSE 0,
                                    ![t].res = res]
    /\ UNCHANGED <<oAttached, oItems, oLoading, oInitialDone, oLoadedAll, oFetches,
                   oShort, oIssue>>
    /\ UNCHANGED NotOVars

\* fetchOrders, from the nil check to the end, with the deferred
\* pg.loading = false.
FetchApply(t) ==
    LET f == oThreads[t] IN
    /\ f.pc = "apply"
    /\ IF f.res = NilOrders
       THEN /\ oItems' = 0
            /\ UNCHANGED <<oInitialDone, oLoadedAll, oShort>>
       ELSE /\ oInitialDone' = TRUE
            /\ oLoadedAll' = IF f.res < OrdersLimit THEN TRUE ELSE oLoadedAll
            /\ oItems' = IF f.loadMore THEN oItems + f.res ELSE f.res
            /\ oShort' = IF f.res < OrdersLimit THEN TRUE ELSE oShort
    /\ oLoading' = FALSE
    /\ oThreads' = [oThreads EXCEPT ![t] = NoFetch]
    /\ UNCHANGED <<oAttached, oFetches, oIssue>>
    /\ UNCHANGED NotOVars

OrdersNext ==
    \/ OrdersOnNavigatedTo
    \/ OrdersSynced
    \/ OrdersStatusChanged
    \/ \E atEnd \in BOOLEAN : onScrollChangeListener(atEnd)
    \/ \E t \in OrderThreads : FetchCheck(t)
    \/ \E t \in OrderThreads : FetchMark(t)
    \/ \E t \in OrderThreads, res \in LoadOrdersResults : FetchLoad(t, res)
    \/ \E t \in OrderThreads : FetchApply(t)

InitOrders == RegIdle /\ TxIdle /\ TbInit /\ MIdle

SpecOrders == InitOrders /\ [][OrdersNext]_vars

\* ===================================================================
\* Properties of the order history page's fetches (SpecOrders)
\* ===================================================================
\* C27 (as claimed): a load-more is issued from scrolling only with at
\* least five orders loaded, the initial load done, the list at its end and
\* loadedAll false; and never after a fetch returned fewer than ten orders
\* unless a fresh fetch ran in between.
C27_LoadMoreOnlyWhenMoreToLoad ==
    oIssue.made =>
      /\ oIssue.items >= LoadMoreThreshold
      /\ oIssue.initialDone
      /\ oIssue.atEnd
      /\ ~oIssue.loadedAll
      /\ ~oIssue.short

\* The part of C27 that holds: what the scroll listener saw when it issued.
LoadMoreGuard ==
    oIssue.made =>
      /\ oIssue.items >= LoadMoreThreshold
      /\ oIssue.initialDone
      /\ oIssue.atEnd
      /\ ~oIssue.loadedAll

\* An invocation of fetchOrders is past the loading guard and has not
\* returned.
PastGuard(t) == oThreads[t].pc \in {"mark", "load", "apply"}

\* C31 (as claimed): fetchOrders is single-flight, at most one invocation is
\* past the loading guard at any time.
C31_SingleFlight == Cardinality({t \in OrderThreads : PastGuard(t)}) <= 1

\* The parts of C31 that hold: an invocation that finds loading set returns
\* and changes none of orderItems, loadedAll, initialLoadingDone; loading is
\* false when an invocation that passed the guard returns.
GuardedReturnChangesNothing ==
    [][\A t \in OrderThreads :
         (oThreads[t].pc = "check" /\ oLoading /\ oThreads'[t].pc = "idle")
           => UNCHANGED <<oItems, oLoadedAll, oInitialDone>>]_vars
LoadingClearedOnReturn ==
    [][\A t \in OrderThreads :
         (PastGuard(t) /\ oThreads'[t].pc = "idle") => ~oLoading']_vars

\* C32 (as claimed): a load-more never removes orders already shown; when
\* it returns, the orders loaded before are still there and the newly loaded
\* ones, none for an empty or a nil result, come after them.
C32_LoadMoreKeepsOrders ==
    [][\A t \in OrderThreads :
         (oThreads[t].pc = "apply" /\ oThreads[t].loadMore /\ oThreads'[t].pc = "idle")
           => oItems' = oItems + (IF oThreads[t].res = NilOrders THEN 0
                                  ELSE oThreads[t].res)]_vars

\* The part of C32 that holds: a load-more whose loader returned orders or
\* an empty result keeps the orders shown and appends the new ones.
LoadMoreAppends ==
    [][\A t \in OrderThreads :
         (oThreads[t].pc = "apply" /\ oThreads[t].loadMore /\ oThreads'[t].pc = "idle"
          /\ oThreads[t].res # NilOrders)
           => oItems' = oItems + oThreads[t].res]_vars

\* ===================================================================
\* Properties of the registering pages (Spec)
\* ===================================================================
Count(seq, e) == Cardinality({i \in 1..Len(seq) : seq[i] = e})

\* The engine rejected the current adapter: the page holds a listener that
\* has no goroutine.
AddFailed == pgListener # NoListener /\ loops[pgListener].pc = "none"

nClosed == Cardinality({l \in ListenerIds : chans[l].closed})
nUnregistered == Cardinality({l \in ListenerIds : loops[l].pc \in {"close", "clear", "done"}})

\* Nothing but the UI thread can take a step.
LoopBlocked(l) ==
    \/ loops[l].pc \in {"none", "done"}
    \/ loops[l].pc = "select" /\ ~CanRecv(chans[loops[l].ch]) /\ loops[l].ctx \notin cancelled
    \/ loops[l].pc = "remove" /\ CallbacksInFlight # {}
Settled ==
    /\ NoFault
    /\ \A l \in ListenerIds : LoopBlocked(l)
    /\ \A t \in EngThreads : eng[t] = Idle \/ ~CanSend(chans[eng[t].l], ListenerChanCap)

\* C1: whatever the sequence of OnNavigatedTo and OnNavigatedFrom calls, the
\* engine holds zero or one registration under the page's ID, and the page
\* never asks for a second one while one is active.
C1_AtMostOneRegistration ==
    /\ Cardinality(registered) <= 1
    /\ ~dupAdd

\* C1 witness: the page is registered again after a full teardown.
C1_Witness ==
    /\ registered = {2}
    /\ loops[1].pc = "done"
    /\ nDetach >= 1

C3_NoLossNoDuplicate ==
    /\ \A l \in ListenerIds : loops[l].pc = "done" => chans[l].buf = <<>>
    /\ \A e \in EventIds : Count(handled, e) <= 1

\* C5 (as claimed): when everything has come to rest, each detach of an
\* attached page has produced exactly one close and one unregister call.
C5_OneTeardownPerDetach ==
    Settled => (nClosed = nDetach /\ nUnregistered = nDetach)

\* C7 (as claimed): a visible page whose registration the engine accepted
\* has exactly one live goroutine.
C7_VisibleHasOneLoop ==
    (visible /\ ~AddFailed) => Cardinality(LiveLoops) = 1

\* C8: the teardown runs unregister, close, clear in that order, each once:
\* a goroutine about to close has unregistered and not closed; one about to
\* clear has closed and still is the page's listener; one that has ended has
\* done all three; one that has not begun has done none.
C8_TeardownOrder ==
    \A l \in ListenerIds :
      /\ loops[l].pc \in {"top", "select", "handle", "remove"} =>
           (l \in registered /\ ~chans[l].closed /\ pgListener = l)
      /\ loops[l].pc = "close" =>
           (l \notin registered /\ ~chans[l].closed /\ pgListener = l)
      /\ loops[l].pc = "clear" =>
           (l \notin registered /\ chans[l].closed /\ pgListener = l)
      /\ loops[l].pc = "done" =>
           (l \notin registered /\ chans[l].closed /\ pgListener # l)

\* C8 witness: a goroutine has gone through the whole teardown.
C8_Witness == \E l \in ListenerIds : loops[l].pc = "done" /\ pgListener = NoListener

\* C10 (as claimed): after a detach that came while the handler was running,
\* the goroutine's next select takes the cancellation case.
C10_NextSelectTearsDown ==
    [][\A l \in ListenerIds :
         (loops[l].pc = "select" /\ loops[l].det /\ loops[l].ctx \in cancelled)
           => loops'[l].pc # "handle"]_vars

\* C10 (amended): a detach that comes while the handler is running does not
\* interrupt it: no teardown step happens while a handler runs, and the
\* notification in flight is handled exactly once.
C10_HandlerCompletesFirst ==
    /\ \A l \in ListenerIds :
         loops[l].pc = "handle" =>
           /\ ~chans[loops[l].ch].closed
           /\ loops[l].ch \in registered
           /\ pgListener = loops[l].ch
    /\ \A e \in midFlight :
         Count(handled, e)
           + Cardinality({l \in ListenerIds : loops[l].pc = "handle" /\ loops[l].cur = e}) = 1

\* C10 witness: the notification in flight at the detach was handled and the
\* goroutine has then torn down.
C10_Witness ==
    \E e \in midFlight, l \in ListenerIds :
      Count(handled, e) = 1 /\ loops[l].pc = "done"

\* C11 (as claimed): a goroutine in select with a notification ready and its
\* context cancelled takes the cancellation case, never the notification.
C11_CancelWinsTies ==
    [][\A l \in ListenerIds :
         (/\ loops[l].pc = "select"
          /\ loops[l].ctx \in cancelled
          /\ chans[loops[l].ch].buf # <<>>)
           => loops'[l].pc # "handle"]_vars

\* C12 (as claimed): the goroutine dispatches what is waiting in its channel
\* before it ends: no notification is left in the channel of a goroutine
\* that has returned.
C12_DrainThenExit ==
    \A l \in ListenerIds : loops[l].pc = "done" => Len(chans[l].buf) = 0

\* C13 (as claimed): an engine thread waiting in an adapter's send always
\* has a goroutine that can still receive from that channel, so the send
\* can return.
C13_NoSenderStuck ==
    \A t \in EngThreads :
      (eng[t] # Idle /\ ~CanSend(chans[eng[t].l], ListenerChanCap))
        => loops[eng[t].l].pc \in {"top", "select", "handle"}

\* C14: when the engine rejects AddListener the error is logged at the
\* attach, no goroutine is started for that adapter, nothing is registered
\* or enqueued for it, and the page goes on without a fault; an adapter the
\* engine accepted always got its goroutine.
C14_AddFailureNoLoop ==
    /\ \A l \in addErrLog :
         /\ loops[l].pc = "none"
         /\ l \notin registered
         /\ chans[l] = NewChan
    /\ \A l \in 1..nListeners : l \notin addErrLog => loops[l].pc # "none"
    /\ addErrLog # {} => NoFault

\* C14 witness: the engine rejected the page's adapter and the page has been
\* navigated to again since.
C14_Witness ==
    \E l \in addErrLog : pgListener = l /\ pgCtx >= 2 /\ visible

\* C17: an OnNavigatedTo on a page whose listener is registered creates no
\* adapter, channel or goroutine, calls AddListener not at all, and leaves
\* the registration and its channel as they were.
C17_ReattachIsNoOp ==
    [][(pgCtx' # pgCtx /\ pgListener \in registered)
         => UNCHANGED <<pgListener, nListeners, chans, registered, loops, dupAdd,
                        addErrLog>>]_vars

\* C17 witness: the page was navigated to a second time while its first
\* adapter was registered, and that adapter is still the only one.
C17_Witness ==
    /\ pgCtx = 2 /\ visible
    /\ pgListener = 1 /\ registered = {1} /\ nListeners = 1
    /\ loops[1].pc \in {"top", "select", "handle"}

\* C19 (as claimed): the attach path's check-and-set of the listener
\* reference never runs between the teardown's unregister and its clearing
\* of the reference.
C19_AttachSerializedWithTeardown ==
    [][(pgCtx' # pgCtx) => \A l \in ListenerIds : loops[l].pc \notin {"close", "clear"}]_vars

\* C28 (as claimed): after a rejected AddListener the page holds no
\* listener reference, so that the next attach registers again.
C28_AddFailureLeavesUnregistered ==
    \A l \in addErrLog : pgListener # l

\* C30 (as claimed): OnNavigatedFrom on a page that was never navigated to
\* does not fault.
C30_DetachBeforeAttachIsSafe ==
    pgCtx = NoCtx => NoFault

\* ===================================================================
\* Properties of the TransactionsPage (SpecTxPage)
\* ===================================================================
\* The goroutines that are waiting in select on a context nobody has
\* cancelled: they stay until a further OnClose.
WaitingTxLoops ==
    {n \in CtxIds : txLoops[n].pc = "select" /\ txLoops[n].ctx \notin txCancelled}

\* C6 (as claimed): OnResume, OnClose, OnResume in quick succession never
\* leave more than one goroutine of the page waiting for notifications.
C6_AtMostOneLoop == Cardinality(WaitingTxLoops) <= 1

\* C15 (as claimed): a goroutine whose page context has been cancelled is
\* on its way out: it is never parked in a select that this cancellation
\* cannot wake.
C15_ExitsAfterCancel ==
    \A n \in CtxIds :
      (n \in txCancelled /\ txLoops[n].pc = "select") => txLoops[n].ctx \in txCancelled

\* C20 (as claimed): at any time at most one goroutine is receiving from
\* Receiver.NotificationsUpdate.
C20_ChannelNotShared ==
    Cardinality({n \in CtxIds : txLoops[n].pc = "select"}) <= 1

\* ===================================================================
\* Properties of the tx/block adapter (SpecTxBlock)
\* ===================================================================
\* Everything that went into the channel, in channel order.
TbThroughChannel == tbHandled \o tbChan.buf

TbWellFormedReturned == {e \in tbReturned : e \notin tbLogged}

\* C4: notifications reach the handler in the order the engine produced
\* them, across callback kinds: when one callback had returned before
\* another was called, its notification is ahead of the other's in the
\* channel and in the handler's order.
C4_EngineOrderKept ==
    \A i, j \in 1..Len(TbThroughChannel) :
      TbThroughChannel[i] \in tbEvents[TbThroughChannel[j]].after => i < j

\* C4 witness: OnBlockAttached(1, 100) returned, then
\* OnTransactionConfirmed(1, "abc", 100) was called, and the handler has
\* seen both.
C4_Witness ==
    \E i, j \in 1..Len(tbHandled) :
      /\ i < j
      /\ tbEvents[tbHandled[i]].type = "BlockAttached"
      /\ tbEvents[tbHandled[i]].walletID = 1 /\ tbEvents[tbHandled[i]].height = 100
      /\ tbEvents[tbHandled[j]].type = "TxConfirmed"
      /\ tbEvents[tbHandled[j]].hash = "abc" /\ tbEvents[tbHandled[j]].height = 100
      /\ tbHandled[i] \in tbEvents[tbHandled[j]].after

\* C9: the enqueue blocks on a channel of capacity 4: never more than 4
\* notifications wait in it, so with a consumer that has taken nothing at
\* most 4 enqueues have returned; and what returned is in the channel or with
\* the consumer, once each: nothing is dropped or overwritten.
C9_BlockingBoundedSend ==
    /\ Len(tbChan.buf) <= 4
    /\ tbHandled = <<>> => Cardinality(TbWellFormedReturned) <= 4
    /\ {TbThroughChannel[i] : i \in 1..Len(TbThroughChannel)} = TbWellFormedReturned
    /\ \A i, j \in 1..Len(TbThroughChannel) :
         TbThroughChannel[i] = TbThroughChannel[j] => i = j

\* C9 witness: four enqueues have returned, the consumer has taken nothing
\* and the fifth enqueue is waiting.
C9_Witness ==
    /\ Len(tbChan.buf) = 4
    /\ tbHandled = <<>>
    /\ \E t \in TbThreads : tbEng[t] # NoEvent

\* The malformed payloads the adapter was called with.
TbMalformed ==
    {e \in 1..Len(tbEvents) : tbEvents[e].type = "NewTransaction" /\ ~tbEvents[e].tx}

\* C16: an OnTransaction whose payload does not unmarshal logs and returns
\* to the engine at once; its event is never on its way to the channel, in
\* the channel or with the consumer; the well-formed events that returned
\* are all in the channel or with the consumer.
C16_MalformedDropped ==
    /\ tbLogged = TbMalformed
    /\ \A e \in TbMalformed :
         /\ e \in tbReturned
         /\ \A t \in TbThreads : tbEng[t] # e
         /\ \A i \in 1..Len(TbThroughChannel) : TbThroughChannel[i] # e
    /\ \A e \in tbReturned \ TbMalformed :
         \E i \in 1..Len(TbThroughChannel) : TbThroughChannel[i] = e

\* C16 witness: after a malformed payload was dropped, a later well-formed
\* transaction was enqueued and consumed.
C16_Witness ==
    \E e \in tbLogged, i \in 1..Len(tbHandled) :
      /\ tbHandled[i] > e
      /\ tbEvents[tbHandled[i]].type = "NewTransaction"
      /\ tbEvents[tbHandled[i]].tx

====
